---------------------------- MODULE Spec2Model ----------------------------
(***************************************************************************)
(* Verification model of the mobile-patient-backend services:              *)
(*   - the vital-signs FastAPI server (src/vital_sign/fastapi_server):     *)
(*     startup / connect_to_mongo, the mock store, the MongoDB collection, *)
(*     POST and GET /vital-signs, GET /health                  (Spec)      *)
(*   - the AI analysis service (ai_service.py): the early warning score   *)
(*     (SpecEWS), anomaly detection (SpecAnomalies), and GET               *)
(*     /health-summary                                      (SpecSummary)  *)
(*   - the OCR endpoints of vitalsign_ocr/app/api/endpoints.py (SpecOCR)   *)
(*                                                                         *)
(* Conventions.  Floating point readings are kept as integers in tenths    *)
(* (36.5 is 365).  A Python datetime is a record [us, aware]: microseconds *)
(* since the epoch and whether it carries a tzinfo.  A BSON datetime holds *)
(* whole milliseconds and comes back from the driver naive.                *)
(***************************************************************************)
EXTENDS Integers, Sequences, FiniteSets, TLC

VARIABLES
    \* ---- vital-signs server ----
    pc,               \* position of startup_event / connect_to_mongo
    db_client,        \* database.py: db.client   ("None" or "client")
    db_database,      \* database.py: db.database ("None" or "database")
    collection,       \* the documents of db.database[COLLECTION_NAME]
    next_oid,         \* the next ObjectId the server hands out
    mock_vital_signs, \* main.py: the module level list mock_vital_signs
    response,         \* the last HTTP response of the server
    connect_raised,   \* history: a step of connect_to_mongo raised
    posted,           \* history: what each answered POST /vital-signs carried
    \* ---- AI analysis service ----
    vital_signs,      \* the List[VitalSign] handed to the service
    alerts,           \* the documents of the alerts collection
    ai_result,        \* what the last call returned
    \* ---- symptoms service ----
    symptoms_service, \* symptoms_service.py: the fields of SymptomsService
    symptoms_call,    \* the last call of analyze_symptoms and its result
    \* ---- OCR endpoints ----
    ocr_pc,           \* position inside one OCR request
    ocr_req,          \* the request being served
    ocr_returned,     \* what the OCR service did: the dict it returned
    ocr_result,       \* the handler's local dict result
    ocr_response,     \* the HTTP response of the request
    webhook_calls,    \* calls of webhook_service.send_ocr_result so far
    webhook_outcome,  \* what send_ocr_result did
    webhook_configs   \* the configurations WebhookConfigService keeps

serverVars == <<pc, db_client, db_database, collection, next_oid,
                mock_vital_signs, response, connect_raised, posted>>
aiVars     == <<vital_signs, alerts, ai_result, symptoms_service,
                symptoms_call>>
ocrVars    == <<ocr_pc, ocr_req, ocr_returned, ocr_result, ocr_response,
                webhook_calls, webhook_outcome, webhook_configs>>
vars       == <<serverVars, aiVars, ocrVars>>

None == "None"

(***************************************************************************)
(* Bounds of the model.                                                    *)
(***************************************************************************)
MaxCreates == 2      \* POST /vital-signs requests in one run
MaxSkip == 1         \* largest skip a GET /vital-signs passes

(***************************************************************************)
(* Python datetimes and BSON datetimes.                                    *)
(***************************************************************************)
Naive(us) == [us |-> us, aware |-> FALSE]
Aware(us) == [us |-> us, aware |-> TRUE]

\* datetime.__lt__ and friends raise TypeError for a naive and an aware operand
Comparable(a, b) == a.aware = b.aware

\* pymongo stores a datetime as whole milliseconds (UTC) and decodes it naive
BsonDatetime(dt) == Naive((dt.us \div 1000) * 1000)

(***************************************************************************)
(* models.py                                                               *)
(***************************************************************************)
VitalSignType == {"heartRate", "bloodPressure", "temperature", "spO2",
                  "respiratoryRate"}

\* The datetimes a client sends: whole and fractional milliseconds, naive and
\* with an offset (ISO 8601 "...Z").
ClientDatetimes == {Naive(8500), Aware(9500)}

\* type, value, secondary_value and notes of a request body
Payloads == {[type |-> "temperature", value |-> 375, secondary_value |-> None,
              notes |-> "Test vital sign from script"],
             [type |-> "bloodPressure", value |-> 1200, secondary_value |-> 800,
              notes |-> None]}

\* VitalSignCreate bodies that pass validation
VitalSignCreate ==
    {[type |-> p.type, value |-> p.value,
      secondary_value |-> p.secondary_value, timestamp |-> ts,
      notes |-> p.notes] : p \in Payloads, ts \in ClientDatetimes}

\* VitalSign(d): the response model built from a stored dict
VitalSign(d) ==
    [id |-> d.id, type |-> d.type, value |-> d.value,
     secondary_value |-> d.secondary_value, timestamp |-> d.timestamp,
     notes |-> d.notes]

(***************************************************************************)
(* main.py: the initial mock store.                                        *)
(***************************************************************************)
MockId(n) == <<"mock", n>>

InitialMockVitalSigns ==
    << [id |-> MockId(1), type |-> "heartRate", value |-> 750,
        secondary_value |-> None, timestamp |-> Naive(9000),
        notes |-> "Normal heart rate"],
       [id |-> MockId(2), type |-> "bloodPressure", value |-> 1200,
        secondary_value |-> 800, timestamp |-> Naive(8000),
        notes |-> "Normal blood pressure"],
       [id |-> MockId(3), type |-> "temperature", value |-> 365,
        secondary_value |-> None, timestamp |-> Naive(7000),
        notes |-> "Normal body temperature"] >>


(***************************************************************************)
(* database.py: the collection and connect_to_mongo.                       *)
(*                                                                         *)
(* A document is [id, has_fields, parses, type, value, secondary_value,    *)
(* timestamp, notes]: has_fields says that "type", "value" and "timestamp" *)
(* all exist in it, parses that VitalSign(doc) validates.                *)
(***************************************************************************)
ObjectId(n) == <<"oid", n>>

Doc(n, hf, ok, t, v, sv, ts, notes) ==
    [id |-> ObjectId(n), has_fields |-> hf, parses |-> ok, type |-> t,
     value |-> v, secondary_value |-> sv, timestamp |-> ts, notes |-> notes]

\* a document of another writer of the shared "patient" collection: no
\* vital-sign fields at all
ForeignDoc == Doc(1, FALSE, FALSE, None, 0, None, Naive(0), None)
\* a document with the three fields that VitalSign rejects (unknown type)
UnparseableDoc == Doc(2, TRUE, FALSE, "weight", 700, None, Naive(9000), None)
\* an earlier vital sign
EarlierDoc == Doc(3, TRUE, TRUE, "heartRate", 800, None, Naive(8000), None)

\* what the collection may hold before the server starts
PreExisting == { {}, {ForeignDoc}, {UnparseableDoc, EarlierDoc} }

\* setup_sample_data: the five sample documents
SampleData(n) ==
    { Doc(n, TRUE, TRUE, "heartRate", 750, None, Naive(9000),
          "Normal heart rate reading"),
      Doc(n + 1, TRUE, TRUE, "bloodPressure", 1200, 800, Naive(8000),
          "Normal blood pressure reading"),
      Doc(n + 2, TRUE, TRUE, "temperature", 365, None, Naive(7000),
          "Normal body temperature"),
      Doc(n + 3, TRUE, TRUE, "spO2", 980, None, Naive(6000),
          "Normal oxygen saturation"),
      Doc(n + 4, TRUE, TRUE, "respiratoryRate", 160, None, Naive(5000),
          "Normal respiratory rate") }

\* mutant of ConnectFailed: the except branch forgets to reset db.client
ConnectFailed_KeepsClient ==
    /\ db_database' = None
    /\ connect_raised' = TRUE
    /\ pc' = "serving"
    /\ UNCHANGED db_client

\* the except branch of connect_to_mongo
ConnectFailed ==
    /\ db_client' = None
    /\ db_database' = None
    /\ connect_raised' = TRUE
    /\ pc' = "serving"

\* db.client = AsyncIOMotorClient(...); db.database = db.client[DB_NAME]
CreateClient ==
    /\ pc = "start"
    /\ \E raises \in BOOLEAN :
         IF raises
         THEN ConnectFailed
         ELSE /\ db_client' = "client"
              /\ db_database' = "database"
              /\ pc' = "ping"
              /\ UNCHANGED connect_raised
    /\ UNCHANGED <<collection, next_oid, mock_vital_signs, response, posted>>
    /\ UNCHANGED <<aiVars, ocrVars>>

\* await db.client.admin.command('ping')
Ping ==
    /\ pc = "ping"
    /\ \E raises \in BOOLEAN :
         IF raises
         THEN ConnectFailed
         ELSE /\ pc' = "indexes"
              /\ UNCHANGED <<db_client, db_database, connect_raised>>
    /\ UNCHANGED <<collection, next_oid, mock_vital_signs, response, posted>>
    /\ UNCHANGED <<aiVars, ocrVars>>

\* await create_indexes(): it catches whatever its driver calls raise
create_indexes ==
    /\ pc = "indexes"
    /\ pc' = "sample"
    /\ UNCHANGED <<db_client, db_database, collection, next_oid,
                   mock_vital_signs, response, connect_raised, posted>>
    /\ UNCHANGED <<aiVars, ocrVars>>

\* the collection after setup_sample_data ran to its end
AfterSampleInsert(docs, n) ==
    IF \A d \in docs : ~d.has_fields THEN docs \cup SampleData(n) ELSE docs

AfterCleanup(docs) == {d \in docs : d.has_fields}

\* await setup_sample_data(): runs to its end, or a driver call raises before
\* the insert or after it
setup_sample_data ==
    /\ pc = "sample"
    /\ \E outcome \in {"ok", "raise_first_count", "raise_second_count"} :
         LET inserted == AfterSampleInsert(collection, next_oid)
             n == IF inserted = collection THEN next_oid ELSE next_oid + 5
         IN  CASE outcome = "ok" ->
                    /\ collection' = AfterCleanup(inserted)
                    /\ next_oid' = n
                    /\ pc' = "serving"
                    /\ UNCHANGED <<db_client, db_database, connect_raised>>
               [] outcome = "raise_first_count" ->
                    /\ ConnectFailed
                    /\ UNCHANGED <<collection, next_oid>>
               [] outcome = "raise_second_count" ->
                    /\ ConnectFailed
                    /\ collection' = inserted
                    /\ next_oid' = n
    /\ UNCHANGED <<mock_vital_signs, response, posted>>
    /\ UNCHANGED <<aiVars, ocrVars>>

(***************************************************************************)
(* main.py: GET /health                                                    *)
(***************************************************************************)
NoResponse == [op |-> "none"]

health_check ==
    /\ pc = "serving"
    /\ response = NoResponse
    /\ response' = [op |-> "health", code |-> 200, status |-> "healthy",
                    mode |-> IF db_client # None THEN "mongodb" ELSE "mock"]
    /\ UNCHANGED <<pc, db_client, db_database, collection, next_oid,
                   mock_vital_signs, connect_raised, posted>>
    /\ UNCHANGED <<aiVars, ocrVars>>

(***************************************************************************)
(* main.py: POST /vital-signs                                              *)
(***************************************************************************)
\* vital_sign.dict() with the keys the handler adds, as the mock list keeps it
MockRecord(body, n) ==
    [id |-> MockId(n), type |-> body.type, value |-> body.value,
     secondary_value |-> body.secondary_value, timestamp |-> body.timestamp,
     notes |-> body.notes]

\* the document insert_one leaves in the collection: the datetime is encoded
\* as a BSON datetime
InsertedDoc(body, n) ==
    Doc(n, TRUE, TRUE, body.type, body.value, body.secondary_value,
        BsonDatetime(body.timestamp), body.notes)

\* the dict the MongoDB branch answers with: the request's own values and
\* the new id
CreatedVitalSign(body, id) ==
    [id |-> id, type |-> body.type, value |-> body.value,
     secondary_value |-> body.secondary_value, timestamp |-> body.timestamp,
     notes |-> body.notes]

\* the except branch of a handler: HTTPException(status_code=500)
Http500(op, exc) == [op |-> op, code |-> 500, raised |-> exc]

create_vital_sign ==
    /\ pc = "serving"
    /\ response = NoResponse
    /\ Cardinality(posted) < MaxCreates
    /\ \E body \in VitalSignCreate :
         IF db_client # None
         THEN /\ \E insert_raises \in BOOLEAN :
                   IF insert_raises
                   THEN /\ response' = Http500("create", "PyMongoError")
                        /\ UNCHANGED <<collection, next_oid, posted>>
                   ELSE /\ collection' =
                              collection \cup {InsertedDoc(body, next_oid)}
                        /\ next_oid' = next_oid + 1
                        /\ response' =
                              [op |-> "create", code |-> 200,
                               body |-> CreatedVitalSign(body, ObjectId(next_oid))]
                        /\ posted' = posted \cup
                              {[id |-> ObjectId(next_oid), body |-> body]}
              /\ UNCHANGED mock_vital_signs
         ELSE LET rec == MockRecord(body, Len(mock_vital_signs) + 1)
              IN  /\ mock_vital_signs' = Append(mock_vital_signs, rec)
                  /\ response' = [op |-> "create", code |-> 200,
                                  body |-> VitalSign(rec)]
                  /\ posted' = posted \cup {[id |-> rec.id, body |-> body]}
                  /\ UNCHANGED <<collection, next_oid>>
    /\ UNCHANGED <<pc, db_client, db_database, connect_raised>>
    /\ UNCHANGED <<aiVars, ocrVars>>

(***************************************************************************)
(* main.py: GET /vital-signs                                               *)
(***************************************************************************)
\* the query parameters a client passes (None: the parameter is left out)
VitalTypeParams == {None, "temperature"}
StartDateParams == {[given |-> FALSE, dt |-> Naive(0)],
                    [given |-> TRUE, dt |-> Naive(8000)],
                    [given |-> TRUE, dt |-> Aware(8000)]}
EndDateParams   == {[given |-> FALSE, dt |-> Naive(0)],
                    [given |-> TRUE, dt |-> Naive(9000)]}
LimitParams     == {1, 2, 100}

ListParams ==
    [skip : 0..MaxSkip, limit : LimitParams, vital_type : VitalTypeParams,
     start_date : StartDateParams, end_date : EndDateParams]

\* s[skip:skip + limit]
Slice(s, skip, limit) ==
    SubSeq(s, skip + 1, IF skip + limit < Len(s) THEN skip + limit ELSE Len(s))

\* ---- the mock branch ----
\* the type filter of the mock branch
MockTypeFiltered(store, q) ==
    IF q.vital_type # None
    THEN LET Keep(vs) == vs.type = q.vital_type IN SelectSeq(store, Keep)
    ELSE store

\* the date comparisons of one record, in the order Python evaluates them:
\* the start_date test, and the end_date test only when that one passed
DateTestRaises(vs, q) ==
    \/ q.start_date.given /\ ~Comparable(vs.timestamp, q.start_date.dt)
    \/ /\ (~q.start_date.given \/ vs.timestamp.us >= q.start_date.dt.us)
       /\ q.end_date.given
       /\ ~Comparable(vs.timestamp, q.end_date.dt)

DateTestPasses(vs, q) ==
    /\ (~q.start_date.given \/ vs.timestamp.us >= q.start_date.dt.us)
    /\ (~q.end_date.given \/ vs.timestamp.us <= q.end_date.dt.us)

MockDateFiltered(signs, q) ==
    IF q.start_date.given \/ q.end_date.given
    THEN LET Keep(vs) == DateTestPasses(vs, q) IN SelectSeq(signs, Keep)
    ELSE signs

\* list.sort(key=timestamp, reverse=True): stable, equal keys keep their order
FirstLatest(s) ==
    CHOOSE i \in 1..Len(s) :
        /\ \A j \in 1..Len(s) : s[j].timestamp.us <= s[i].timestamp.us
        /\ \A j \in 1..(i - 1) : s[j].timestamp.us < s[i].timestamp.us

RemoveAt(s, i) == SubSeq(s, 1, i - 1) \o SubSeq(s, i + 1, Len(s))

RECURSIVE SortByTimestampDesc(_)
SortByTimestampDesc(s) ==
    IF s = <<>> THEN <<>>
    ELSE LET i == FirstLatest(s)
         IN  <<s[i]>> \o SortByTimestampDesc(RemoveAt(s, i))

\* the sort compares a naive with an aware datetime and raises TypeError
SortRaises(s) ==
    \E i, j \in 1..Len(s) : ~Comparable(s[i].timestamp, s[j].timestamp)

MockListRaises(store, q) ==
    LET typed == MockTypeFiltered(store, q)
    IN  \/ /\ (q.start_date.given \/ q.end_date.given)
           /\ \E i \in 1..Len(typed) : DateTestRaises(typed[i], q)
        \/ SortRaises(MockDateFiltered(typed, q))

MockList(store, q) ==
    LET sorted == SortByTimestampDesc(
                      MockDateFiltered(MockTypeFiltered(store, q), q))
        page == Slice(sorted, q.skip, q.limit)
    IN  [i \in 1..Len(page) |-> VitalSign(page[i])]

\* ---- the MongoDB branch ----
\* collection.find(query): the query's datetimes are encoded as BSON datetimes
MongoMatches(d, q) ==
    /\ q.vital_type # None => (d.has_fields /\ d.type = q.vital_type)
    /\ q.start_date.given =>
         (d.has_fields /\ d.timestamp.us >= BsonDatetime(q.start_date.dt).us)
    /\ q.end_date.given =>
         (d.has_fields /\ d.timestamp.us <= BsonDatetime(q.end_date.dt).us)

\* sort key of .sort("timestamp", -1): a missing field sorts as null, lowest
SortKey(d) == IF d.has_fields THEN d.timestamp.us ELSE -1

\* every order .sort("timestamp", -1) may produce: documents with equal
\* timestamps come in an order the server does not fix
RECURSIVE MongoOrders(_)
MongoOrders(docs) ==
    IF docs = {} THEN {<<>>}
    ELSE UNION { { <<d>> \o rest : rest \in MongoOrders(docs \ {d}) } :
                 d \in {x \in docs : \A y \in docs : SortKey(y) <= SortKey(x)} }

\* the async for loop over the cursor: documents without the required
\* fields, and documents VitalSign rejects, are skipped
MongoPage(order, q) ==
    LET page == Slice(order, q.skip, q.limit)
        Keep(d) == d.has_fields /\ d.parses
        kept == SelectSeq(page, Keep)
    IN  [i \in 1..Len(kept) |-> VitalSign(kept[i])]

get_vital_signs ==
    /\ pc = "serving"
    /\ response = NoResponse
    /\ \E q \in ListParams :
         IF db_client # None
         THEN \E find_raises \in BOOLEAN :
                IF find_raises
                THEN response' = [op |-> "list", code |-> 500, params |-> q,
                                  raised |-> "PyMongoError"]
                ELSE \E order \in MongoOrders({d \in collection : MongoMatches(d, q)}) :
                       response' = [op |-> "list", code |-> 200, params |-> q,
                                    body |-> MongoPage(order, q)]
         ELSE IF MockListRaises(mock_vital_signs, q)
              THEN response' = [op |-> "list", code |-> 500, params |-> q,
                                raised |-> "TypeError"]
              ELSE response' = [op |-> "list", code |-> 200, params |-> q,
                                body |-> MockList(mock_vital_signs, q)]
    /\ UNCHANGED <<pc, db_client, db_database, collection, next_oid,
                   mock_vital_signs, connect_raised, posted>>
    /\ UNCHANGED <<aiVars, ocrVars>>

\* uvicorn writes the handler's response to the client and the server takes
\* the next request
send_response ==
    /\ pc = "serving"
    /\ response # NoResponse
    /\ response' = NoResponse
    /\ UNCHANGED <<pc, db_client, db_database, collection, next_oid,
                   mock_vital_signs, connect_raised, posted>>
    /\ UNCHANGED <<aiVars, ocrVars>>

(***************************************************************************)
(* The vital-signs server.                                                 *)
(***************************************************************************)
\* SymptomsService.__init__ before _initialize_services
SymptomsIdle ==
    /\ symptoms_service = [initialized |-> FALSE, embedding_model |-> None,
                           qdrant_client |-> None, openai_client |-> None]
    /\ symptoms_call = [op |-> "none"]

AIIdle  == /\ vital_signs = <<>>
           /\ alerts = <<>>
           /\ ai_result = [op |-> "none"]
           /\ SymptomsIdle

NoDelivery == [present |-> FALSE]
NoResult == [success |-> FALSE, has_counts |-> FALSE, text_count |-> 0,
             results |-> <<>>, webhook_delivery |-> NoDelivery]

OCRIdle == /\ ocr_pc = "idle"
           /\ ocr_req = [endpoint |-> "none"]
           /\ ocr_returned = [kind |-> "none"]
           /\ ocr_result = NoResult
           /\ ocr_response = [code |-> 0]
           /\ webhook_calls = 0
           /\ webhook_outcome = [kind |-> "none"]
           /\ webhook_configs = {}

Init ==
    /\ pc = "start"
    /\ db_client = None
    /\ db_database = None
    /\ collection \in PreExisting
    /\ next_oid = 4
    /\ mock_vital_signs = InitialMockVitalSigns
    /\ response = NoResponse
    /\ connect_raised = FALSE
    /\ posted = {}
    /\ AIIdle
    /\ OCRIdle

Next ==
    \/ CreateClient
    \/ Ping
    \/ create_indexes
    \/ setup_sample_data
    \/ health_check
    \/ create_vital_sign
    \/ get_vital_signs
    \/ send_response

Spec == Init /\ [][Next]_vars

(***************************************************************************)
(* Claims about the vital-signs server.                                    *)
(***************************************************************************)
\* the driver failed (the database went away): no claim is about that
DriverFailed == response.code = 500 /\ response.raised = "PyMongoError"

\* the records the store holds that are valid vital signs
StoredValid ==
    IF db_client # None
    THEN {VitalSign(d) : d \in {x \in collection : x.has_fields /\ x.parses}}
    ELSE {VitalSign(mock_vital_signs[i]) : i \in 1..Len(mock_vital_signs)}

StoredCount ==
    IF db_client # None THEN Cardinality(collection) ELSE Len(mock_vital_signs)

\* C1: startup never fails because of MongoDB.  Once startup is over, a
\* raised step of connect_to_mongo has left db.client and db.database None,
\* and every answer of GET /health is 200 'healthy' with mode 'mock' if a
\* step raised and mode 'mongodb' if none did.
C1_StartupFallsBackToMock ==
    /\ pc \in {"start", "ping", "indexes", "sample", "serving"}
    /\ (pc = "serving" /\ connect_raised) =>
           (db_client = None /\ db_database = None)
    /\ (pc = "serving" /\ ~connect_raised) =>
           (db_client # None /\ db_database # None)
    /\ response.op = "health" =>
           /\ response.code = 200
           /\ response.status = "healthy"
           /\ response.mode = IF connect_raised THEN "mock" ELSE "mongodb"

\* C1 witness: a step after the client was created raised, and GET /health
\* answered in mock mode
C1_Witness_HealthAfterFailedConnect ==
    /\ connect_raised
    /\ collection # {} /\ \A d \in collection : d.parses
    /\ response.op = "health"
    /\ response.mode = "mock"

\* C2 (as claimed): after POST /vital-signs answered 200 with id X, every
\* later GET /vital-signs without filters, with skip 0 and limit at least
\* the number of stored records, answers 200 with a record whose id is X and
\* whose type, value, secondary_value, timestamp and notes are the posted
\* ones.
C2_CreateThenList ==
    \A p \in posted :
        ( /\ response.op = "list"
          /\ ~DriverFailed
          /\ response.params.vital_type = None
          /\ ~response.params.start_date.given
          /\ ~response.params.end_date.given
          /\ response.params.skip = 0
          /\ response.params.limit >= StoredCount )
        => /\ response.code = 200
           /\ \E i \in 1..Len(response.body) :
                LET r == response.body[i]
                IN  /\ r.id = p.id
                    /\ r.type = p.body.type
                    /\ r.value = p.body.value
                    /\ r.secondary_value = p.body.secondary_value
                    /\ r.timestamp = p.body.timestamp
                    /\ r.notes = p.body.notes

\* the records GET /vital-signs is claimed to select
ClaimedSelection(q) ==
    {r \in StoredValid :
        /\ q.vital_type # None => r.type = q.vital_type
        /\ q.start_date.given => r.timestamp.us >= q.start_date.dt.us
        /\ q.end_date.given => r.timestamp.us <= q.end_date.dt.us}

\* every arrangement of a set of records by timestamp descending
RECURSIVE DescendingOrders(_)
DescendingOrders(rs) ==
    IF rs = {} THEN {<<>>}
    ELSE UNION { { <<r>> \o rest : rest \in DescendingOrders(rs \ {r}) } :
                 r \in {x \in rs : \A y \in rs : y.timestamp.us <= x.timestamp.us} }

\* C3 (as claimed): GET /vital-signs answers, for every combination of its
\* parameters and in both modes, with exactly the stored valid records of
\* the requested type and inclusive timestamp range, ordered by timestamp
\* descending, cut to positions skip .. skip+limit-1 of that order.
C3_ListIsFilteredSortedPage ==
    (response.op = "list" /\ ~DriverFailed) =>
        /\ response.code = 200
        /\ \E order \in DescendingOrders(ClaimedSelection(response.params)) :
             response.body =
                Slice(order, response.params.skip, response.params.limit)

(***************************************************************************)
(* ai_service.py: AIAnalysisService.calculate_early_warning_score          *)
(*                                                                         *)
(* A reading is [type, value, timestamp]: the fields of a VitalSign the    *)
(* service reads.  Values are in tenths, timestamps are those of documents *)
(* read from the collection (naive, whole milliseconds).                   *)
(***************************************************************************)
Reading(t, v, ts) == [type |-> t, value |-> v, timestamp |-> ts]

\* a variant that lets a later reading with an equal timestamp replace the
\* one kept so far
RECURSIVE LatestValues_KeepsLast(_, _)
LatestValues_KeepsLast(signs, n) ==
    IF n = 0 THEN [t \in {} |-> Reading(None, 0, 0)]
    ELSE LET latest == LatestValues_KeepsLast(signs, n - 1)
             vs == signs[n]
         IN  IF \/ vs.type \notin DOMAIN latest
                \/ vs.timestamp >= latest[vs.type].timestamp
             THEN [t \in DOMAIN latest \cup {vs.type} |->
                      IF t = vs.type THEN vs ELSE latest[t]]
             ELSE latest

\* latest_values after the first n readings of the loop
RECURSIVE LatestValues(_, _)
LatestValues(signs, n) ==
    IF n = 0 THEN [t \in {} |-> Reading(None, 0, 0)]
    ELSE LET latest == LatestValues(signs, n - 1)
             vs == signs[n]
         IN  IF \/ vs.type \notin DOMAIN latest
                \/ vs.timestamp > latest[vs.type].timestamp
             THEN [t \in DOMAIN latest \cup {vs.type} |->
                      IF t = vs.type THEN vs ELSE latest[t]]
             ELSE latest

\* one scoring block: the points it adds and the factor it appends
Scored(points, label, value, band) ==
    [points |-> points, factors |-> <<[label |-> label, value |-> value,
                                       band |-> band]>>]
NotScored == [points |-> 0, factors |-> <<>>]

\* a variant whose bands include their bounds
HeartRateScoring_InclusiveBands(hr) ==
    IF hr <= 400 \/ hr >= 1300 THEN Scored(3, "Heart rate", hr, "critical")
    ELSE IF hr <= 500 \/ hr >= 1100
         THEN Scored(2, "Heart rate", hr, "abnormal")
    ELSE IF hr <= 600 \/ hr >= 1000
         THEN Scored(1, "Heart rate", hr, "slightly abnormal")
    ELSE NotScored

HeartRateScoring(hr) ==
    IF hr < 400 \/ hr > 1300 THEN Scored(3, "Heart rate", hr, "critical")
    ELSE IF hr < 500 \/ hr > 1100 THEN Scored(2, "Heart rate", hr, "abnormal")
    ELSE IF hr < 600 \/ hr > 1000
         THEN Scored(1, "Heart rate", hr, "slightly abnormal")
    ELSE NotScored

BloodPressureScoring(bp) ==
    IF bp < 700 \/ bp > 2000 THEN Scored(3, "Blood pressure", bp, "critical")
    ELSE IF bp < 900 \/ bp > 1600
         THEN Scored(2, "Blood pressure", bp, "abnormal")
    ELSE IF bp < 1000 \/ bp > 1400
         THEN Scored(1, "Blood pressure", bp, "slightly abnormal")
    ELSE NotScored

TemperatureScoring(temp) ==
    IF temp < 350 \/ temp > 390 THEN Scored(3, "Temperature", temp, "critical")
    ELSE IF temp < 360 \/ temp > 380
         THEN Scored(2, "Temperature", temp, "abnormal")
    ELSE IF temp < 365 \/ temp > 375
         THEN Scored(1, "Temperature", temp, "slightly abnormal")
    ELSE NotScored

SpO2Scoring(spo2) ==
    IF spo2 < 850 THEN Scored(3, "SpO2", spo2, "critical")
    ELSE IF spo2 < 900 THEN Scored(2, "SpO2", spo2, "abnormal")
    ELSE IF spo2 < 950 THEN Scored(1, "SpO2", spo2, "slightly abnormal")
    ELSE NotScored

RespiratoryRateScoring(rr) ==
    IF rr < 80 \/ rr > 250 THEN Scored(3, "Respiratory rate", rr, "critical")
    ELSE IF rr < 120 \/ rr > 200
         THEN Scored(2, "Respiratory rate", rr, "abnormal")
    ELSE IF rr < 140 \/ rr > 180
         THEN Scored(1, "Respiratory rate", rr, "slightly abnormal")
    ELSE NotScored

\* the scoring block of one type, skipped when the type has no latest value
TypeScoring(latest, t) ==
    IF t \notin DOMAIN latest THEN NotScored
    ELSE CASE t = "heartRate"       -> HeartRateScoring(latest[t].value)
           [] t = "bloodPressure"   -> BloodPressureScoring(latest[t].value)
           [] t = "temperature"     -> TemperatureScoring(latest[t].value)
           [] t = "spO2"            -> SpO2Scoring(latest[t].value)
           [] t = "respiratoryRate" -> RespiratoryRateScoring(latest[t].value)

\* the order of the five scoring blocks
ScoringOrder == <<"heartRate", "bloodPressure", "temperature", "spO2",
                  "respiratoryRate">>

\* score and factors after the first k scoring blocks
RECURSIVE ScoreAfter(_, _)
ScoreAfter(latest, k) ==
    IF k = 0 THEN NotScored
    ELSE LET before == ScoreAfter(latest, k - 1)
             block == TypeScoring(latest, ScoringOrder[k])
         IN  [points |-> before.points + block.points,
              factors |-> before.factors \o block.factors]

\* a variant that rates a score of 7 below critical
RiskLevel_CriticalAbove7(score) ==
    IF score > 7 THEN "critical"
    ELSE IF score >= 5 THEN "high"
    ELSE IF score >= 3 THEN "medium"
    ELSE "low"

RiskLevel(score) ==
    IF score >= 7 THEN "critical"
    ELSE IF score >= 5 THEN "high"
    ELSE IF score >= 3 THEN "medium"
    ELSE "low"

Recommendations(score) ==
    IF score >= 7
    THEN <<"Immediate medical attention required",
           "Consider emergency response", "Continuous monitoring essential">>
    ELSE IF score >= 5
    THEN <<"Close monitoring required", "Consider escalation to senior staff",
           "Review medication and treatment">>
    ELSE IF score >= 3
    THEN <<"Increased monitoring frequency", "Review vital signs trends",
           "Consider intervention">>
    ELSE <<"Continue routine monitoring", "Maintain current care plan">>

\* the EarlyWarningScore the method returns (its timestamp is the wall clock)
EarlyWarningScore(signs) ==
    LET total == ScoreAfter(LatestValues(signs, Len(signs)), 5)
    IN  [score |-> total.points,
         risk_level |-> RiskLevel(total.points),
         factors |-> total.factors,
         recommendations |-> Recommendations(total.points)]

ServerOff == /\ pc = "off"
             /\ db_client = None
             /\ db_database = None
             /\ collection = {}
             /\ next_oid = 0
             /\ mock_vital_signs = <<>>
             /\ response = NoResponse
             /\ connect_raised = FALSE
             /\ posted = {}

calculate_early_warning_score ==
    /\ ai_result.op = "none"
    /\ ai_result' = [op |-> "ews", ews |-> EarlyWarningScore(vital_signs)]
    /\ UNCHANGED <<vital_signs, alerts, symptoms_service, symptoms_call>>
    /\ UNCHANGED <<serverVars, ocrVars>>

(***************************************************************************)
(* The early warning score as a function of its input list.                *)
(***************************************************************************)
MaxReadings == 3     \* length of the freely mixed input lists

SeqsUpTo(S, n) == UNION {[1..k -> S] : k \in 0..n}

\* values on both sides of every threshold of a type
BoundaryValues(t) ==
    CASE t = "heartRate" ->
           {399, 400, 499, 500, 599, 600, 1000, 1001, 1100, 1101, 1300, 1301}
      [] t = "bloodPressure" ->
           {699, 700, 899, 900, 999, 1000, 1400, 1401, 1600, 1601, 2000, 2001}
      [] t = "temperature" ->
           {349, 350, 359, 360, 364, 365, 375, 376, 380, 381, 390, 391}
      [] t = "spO2" -> {849, 850, 899, 900, 949, 950}
      [] t = "respiratoryRate" ->
           {79, 80, 119, 120, 139, 140, 180, 181, 200, 201, 250, 251}

\* a normal, a slightly abnormal and a critical value of a type
LevelValues(t) ==
    CASE t = "heartRate"       -> {750, 1050, 1350}
      [] t = "bloodPressure"   -> {1200, 1500, 2100}
      [] t = "temperature"     -> {370, 378, 395}
      [] t = "spO2"            -> {980, 930, 800}
      [] t = "respiratoryRate" -> {160, 190, 260}

\* one reading, at every threshold of its type
BoundaryInputs ==
    UNION { {<<Reading(t, v, 1)>> : v \in BoundaryValues(t)} :
            t \in VitalSignType }

MixedReadings ==
    {Reading("heartRate", v, ts) : v \in {750, 1350}, ts \in {1, 2}} \cup
    {Reading("spO2", v, ts) : v \in {980, 800}, ts \in {1, 2}}

\* one reading of each of the five types
FullInputs ==
    {<<Reading("heartRate", a, 1), Reading("bloodPressure", b, 1),
       Reading("temperature", c, 1), Reading("spO2", d, 1),
       Reading("respiratoryRate", e, 1)>> :
        a \in LevelValues("heartRate"), b \in LevelValues("bloodPressure"),
        c \in LevelValues("temperature"), d \in LevelValues("spO2"),
        e \in LevelValues("respiratoryRate")}

\* the lists handed to calculate_early_warning_score
EWSInputs ==
    BoundaryInputs \cup SeqsUpTo(MixedReadings, MaxReadings) \cup FullInputs

InitEWS ==
    /\ vital_signs \in EWSInputs
    /\ alerts = <<>>
    /\ ai_result = [op |-> "none"]
    /\ SymptomsIdle
    /\ ServerOff
    /\ OCRIdle

NextEWS == calculate_early_warning_score

SpecEWS == InitEWS /\ [][NextEWS]_vars

(***************************************************************************)
(* Claims about the early warning score.                                   *)
(***************************************************************************)
\* the threshold table of the claim: for each type the values below which
\* the sub-score is 3, 2, 1 and above which it is 1, 2, 3 (SpO2 has no
\* upper bands)
ClaimedTable ==
    [heartRate       |-> [below |-> <<400, 500, 600>>,
                          above |-> <<1000, 1100, 1300>>],
     bloodPressure   |-> [below |-> <<700, 900, 1000>>,
                          above |-> <<1400, 1600, 2000>>],
     temperature     |-> [below |-> <<350, 360, 365>>,
                          above |-> <<375, 380, 390>>],
     spO2            |-> [below |-> <<850, 900, 950>>, above |-> <<>>],
     respiratoryRate |-> [below |-> <<80, 120, 140>>,
                          above |-> <<180, 200, 250>>]]

ClaimedSubScore(t, v) ==
    LET row == ClaimedTable[t]
        band(k) == \/ v < row.below[k]
                   \/ row.above # <<>> /\ v > row.above[4 - k]
    IN  IF band(1) THEN 3
        ELSE IF band(2) THEN 2
        ELSE IF band(3) THEN 1
        ELSE 0

FactorLabel ==
    [heartRate |-> "Heart rate", bloodPressure |-> "Blood pressure",
     temperature |-> "Temperature", spO2 |-> "SpO2",
     respiratoryRate |-> "Respiratory rate"]

TypesOf(signs) == {signs[i].type : i \in 1..Len(signs)}

RECURSIVE SumOver(_, _)
SumOver(f, S) ==
    IF S = {} THEN 0
    ELSE LET x == CHOOSE y \in S : TRUE IN f[x] + SumOver(f, S \ {x})

\* C4: the score is the sum, over the types present in the input, of the
\* table's sub-score of one reading of that type; absent types add nothing;
\* the factors list holds exactly one entry per type with a non-zero
\* sub-score; the score lies in 0..15.
C4_ScoreIsSumOfTable ==
    ai_result.op = "ews" =>
        LET ews == ai_result.ews
            present == TypesOf(vital_signs)
        IN  /\ ews.score \in 0..15
            /\ \E pick \in [present -> 1..Len(vital_signs)] :
                 LET sub == [t \in present |->
                               ClaimedSubScore(t, vital_signs[pick[t]].value)]
                 IN  /\ \A t \in present : vital_signs[pick[t]].type = t
                     /\ \A t \in present : sub[t] \in 0..3
                     /\ ews.score = SumOver(sub, present)
                     /\ Len(ews.factors) =
                            Cardinality({t \in present : sub[t] > 0})
                     /\ \A t \in present :
                            sub[t] > 0 =>
                              \E k \in 1..Len(ews.factors) :
                                /\ ews.factors[k].label = FactorLabel[t]
                                /\ ews.factors[k].value =
                                      vital_signs[pick[t]].value

\* C4 witness: all five types present and critical, the score is 15
C4_Witness_Score15 ==
    /\ ai_result.op = "ews"
    /\ TypesOf(vital_signs) = VitalSignType
    /\ ai_result.ews.score = 15
    /\ Len(ai_result.ews.factors) = 5

\* C5: the risk level is decided by the total score alone ('critical' iff
\* >= 7, 'high' iff 5 or 6, 'medium' iff 3 or 4, 'low' iff <= 2), the empty
\* input gives score 0, 'low' and no factors, and the recommendations are
\* never empty.
C5_RiskLevelFromScore ==
    ai_result.op = "ews" =>
        LET ews == ai_result.ews
        IN  /\ ews.risk_level = "critical" <=> ews.score >= 7
            /\ ews.risk_level = "high" <=> ews.score \in {5, 6}
            /\ ews.risk_level = "medium" <=> ews.score \in {3, 4}
            /\ ews.risk_level = "low" <=> ews.score <= 2
            /\ ews.recommendations # <<>>
            /\ vital_signs = <<>> =>
                  (ews.score = 0 /\ ews.risk_level = "low" /\ ews.factors = <<>>)

\* C5 witness: a score of exactly 7 is rated critical
C5_Witness_Score7Critical ==
    /\ ai_result.op = "ews"
    /\ ai_result.ews.score = 7
    /\ ai_result.ews.risk_level = "critical"

\* the reading the claim calls the latest of its type: greatest timestamp,
\* first in input order among equals
IsLatestOfType(signs, i) ==
    \A j \in 1..Len(signs) :
        signs[j].type = signs[i].type =>
            \/ signs[j].timestamp < signs[i].timestamp
            \/ signs[j].timestamp = signs[i].timestamp /\ j >= i

RECURSIVE ReducedToLatest(_, _)
ReducedToLatest(signs, n) ==
    IF n = 0 THEN <<>>
    ELSE IF IsLatestOfType(signs, n)
         THEN Append(ReducedToLatest(signs, n - 1), signs[n])
         ELSE ReducedToLatest(signs, n - 1)

\* C6: the result is that of the input reduced to the latest reading of each
\* type, and removing any reading that is not the latest of its type leaves
\* score, risk level and factors as they are.
C6_OnlyLatestReadingCounts ==
    ai_result.op = "ews" =>
        /\ ai_result.ews =
              EarlyWarningScore(ReducedToLatest(vital_signs, Len(vital_signs)))
        /\ \A i \in 1..Len(vital_signs) :
              ~IsLatestOfType(vital_signs, i) =>
                  ai_result.ews = EarlyWarningScore(RemoveAt(vital_signs, i))

\* C6 witness: two readings of one type carry the same timestamp, the first
\* is critical, the second normal, and the first one decided the score
C6_Witness_TieKeepsFirst ==
    /\ ai_result.op = "ews"
    /\ Len(vital_signs) = 2
    /\ vital_signs[1].type = vital_signs[2].type
    /\ vital_signs[1].timestamp = vital_signs[2].timestamp
    /\ ClaimedSubScore(vital_signs[1].type, vital_signs[1].value) = 3
    /\ ClaimedSubScore(vital_signs[2].type, vital_signs[2].value) = 0
    /\ ai_result.ews.score = 3

(***************************************************************************)
(* AIAnalysisService.detect_anomalies.  np.mean and np.std are computed    *)
(* exactly here: with n values of sum S and sum of squares Q the mean is   *)
(* S/n and the population variance (n*Q - S*S)/(n*n), so the tests on      *)
(* std_val and z_score are stated on the numerators.                       *)
(***************************************************************************)
\* the keys of by_type, in the order the grouping loop inserts them
RECURSIVE TypesInOrder(_, _)
TypesInOrder(signs, n) ==
    IF n = 0 THEN <<>>
    ELSE LET before == TypesInOrder(signs, n - 1)
         IN  IF \E k \in 1..Len(before) : before[k] = signs[n].type
             THEN before
             ELSE Append(before, signs[n].type)

\* by_type[t]
SignsOfType(signs, t) == SelectSeq(signs, LAMBDA vs : vs.type = t)

RECURSIVE SumValues(_, _)
SumValues(signs, n) ==
    IF n = 0 THEN 0 ELSE SumValues(signs, n - 1) + signs[n].value

RECURSIVE SumSquares(_, _)
SumSquares(signs, n) ==
    IF n = 0 THEN 0
    ELSE SumSquares(signs, n - 1) + signs[n].value * signs[n].value

\* the z-score test of one reading within the readings of its type, skipping
\* the sign of the deviation
ZScoreAboveThreshold_HighOnly(signs, value) ==
    LET n == Len(signs)
        S == SumValues(signs, n)
        Q == SumSquares(signs, n)
        dev == n * value - S
    IN  /\ n * Q - S * S > 0
        /\ dev > 0
        /\ dev * dev > 4 * (n * Q - S * S)

\* std_val > 0 and abs((value - mean_val) / std_val) > anomaly_threshold
ZScoreAboveThreshold(signs, value) ==
    LET n == Len(signs)
        S == SumValues(signs, n)
        Q == SumSquares(signs, n)
        dev == n * value - S
    IN  /\ n * Q - S * S > 0
        /\ dev * dev > 4 * (n * Q - S * S)

\* _get_anomaly_action, with mean_val = S/n
AnomalyAction(vs_type, value, signs) ==
    LET n == Len(signs)
        S == SumValues(signs, n)
        above == n * value > S
        below == n * value < S
        fallback == "Monitor closely and consult healthcare provider"
    IN  CASE vs_type = "heartRate" ->
               IF above
               THEN "Monitor closely, consider immediate medical attention if sustained"
               ELSE "Check for bradycardia, monitor for symptoms"
          [] vs_type = "bloodPressure" ->
               IF above
               THEN "Monitor for hypertension, consider medication review"
               ELSE "Check for hypotension, monitor for dizziness"
          [] vs_type = "temperature" ->
               IF above
               THEN "Monitor for fever, consider antipyretics if needed"
               ELSE "Check for hypothermia, ensure warmth"
          [] vs_type = "spO2" ->
               IF below
               THEN "Check oxygen saturation, consider supplemental oxygen"
               ELSE fallback
          [] vs_type = "respiratoryRate" ->
               IF above
               THEN "Monitor for respiratory distress"
               ELSE "Check for respiratory depression"
          [] OTHER -> fallback

\* the AnomalyDetection built for one reading; its confidence
\* min(z_score / 2.0, 1.0) is 1.0 whenever the test passed, and its reason
\* quotes the value
AnomalyDetection(vs_type, value, signs) ==
    [type |-> vs_type, is_anomaly |-> TRUE, confidence |-> "1.0",
     reason |-> [value |-> value],
     suggested_action |-> AnomalyAction(vs_type, value, signs)]

\* the anomalies appended by the inner loop for the first n readings of one
\* type
RECURSIVE AnomaliesOfType(_, _, _)
AnomaliesOfType(vs_type, signs, n) ==
    IF n = 0 THEN <<>>
    ELSE LET before == AnomaliesOfType(vs_type, signs, n - 1)
         IN  IF ZScoreAboveThreshold(signs, signs[n].value)
             THEN Append(before,
                         AnomalyDetection(vs_type, signs[n].value, signs))
             ELSE before

\* the anomalies list after the outer loop has handled the first k types
RECURSIVE AnomaliesAfter(_, _, _)
AnomaliesAfter(vital, types, k) ==
    IF k = 0 THEN <<>>
    ELSE LET signs == SignsOfType(vital, types[k])
             before == AnomaliesAfter(vital, types, k - 1)
         IN  IF Len(signs) < 3 THEN before
             ELSE before \o AnomaliesOfType(types[k], signs, Len(signs))

DetectAnomalies(vital) ==
    LET types == TypesInOrder(vital, Len(vital))
    IN  AnomaliesAfter(vital, types, Len(types))

detect_anomalies ==
    /\ ai_result.op = "none"
    /\ ai_result' = [op |-> "anomalies",
                     anomalies |-> DetectAnomalies(vital_signs)]
    /\ UNCHANGED <<vital_signs, alerts, symptoms_service, symptoms_call>>
    /\ UNCHANGED serverVars
    /\ UNCHANGED ocrVars

MaxAnomalyReadings == 6

\* two heart rates and two saturations; five equal readings and a sixth that
\* differs are the fewest that put a reading more than two deviations away
AnomalyReadings ==
    {Reading("heartRate", 600, 1), Reading("heartRate", 1000, 1),
     Reading("spO2", 980, 1), Reading("spO2", 900, 1)}

Repeat(x, n) == [i \in 1..n |-> x]

\* two types interleaved with one outlier each, and eight readings of which
\* two lie at exactly two standard deviations
LongAnomalyInputs ==
    { [i \in 1..12 |->
          IF i % 2 = 1
          THEN Reading("heartRate", IF i = 7 THEN 1000 ELSE 600, 1)
          ELSE Reading("spO2", IF i = 12 THEN 900 ELSE 980, 1)],
      <<Reading("temperature", 400, 1), Reading("temperature", 320, 1)>>
          \o Repeat(Reading("temperature", 360, 1), 6),
      <<Reading("temperature", 401, 1), Reading("temperature", 320, 1)>>
          \o Repeat(Reading("temperature", 360, 1), 6) }

AnomalyInputs ==
    SeqsUpTo(AnomalyReadings, MaxAnomalyReadings) \cup LongAnomalyInputs

InitAnomalies ==
    /\ vital_signs \in AnomalyInputs
    /\ alerts = <<>>
    /\ ai_result = [op |-> "none"]
    /\ SymptomsIdle
    /\ ServerOff
    /\ OCRIdle

NextAnomalies == detect_anomalies

SpecAnomalies == InitAnomalies /\ [][NextAnomalies]_vars

\* the readings of the input that share the type of reading i
SameType(signs, i) == {j \in 1..Len(signs) : signs[j].type = signs[i].type}

\* reading i is an anomaly in the claim's sense.  With n readings of the
\* type and total T, n*value - T is n times the distance from the mean and
\* the sum of the squares of these is n*n*n times the variance.
ClaimedAnomaly(signs, i) ==
    LET same == SameType(signs, i)
        n == Cardinality(same)
        T == SumOver([j \in same |-> signs[j].value], same)
        dist == [j \in same |-> n * signs[j].value - T]
        var3 == SumOver([j \in same |-> dist[j] * dist[j]], same)
    IN  /\ n >= 3
        /\ var3 > 0
        /\ n * dist[i] * dist[i] > 4 * var3

\* C8: a reading is reported iff its type has at least 3 readings, the
\* standard deviation of the type is positive and the reading lies more than
\* 2 standard deviations from the mean; each such reading gives exactly one
\* AnomalyDetection of its type with is_anomaly true, and nothing else is
\* returned.
C8_AnomalyIffBeyondTwoSigma ==
    ai_result.op = "anomalies" =>
        LET found == ai_result.anomalies
        IN  /\ \A k \in 1..Len(found) : found[k].is_anomaly
            /\ Len(found) =
                 Cardinality({i \in 1..Len(vital_signs) :
                                 ClaimedAnomaly(vital_signs, i)})
            /\ \A t \in VitalSignType, v \in {vital_signs[i].value :
                                               i \in 1..Len(vital_signs)} :
                 Cardinality({k \in 1..Len(found) :
                                 /\ found[k].type = t
                                 /\ found[k].reason.value = v})
                 = Cardinality({i \in 1..Len(vital_signs) :
                                 /\ vital_signs[i].type = t
                                 /\ vital_signs[i].value = v
                                 /\ ClaimedAnomaly(vital_signs, i)})

\* C8 witness: a low outlier among six readings of one type is the only
\* anomaly reported
C8_Witness_LowOutlierReported ==
    /\ ai_result.op = "anomalies"
    /\ Len(vital_signs) = 6
    /\ Len(ai_result.anomalies) = 1
    /\ ai_result.anomalies[1].type = "spO2"
    /\ ai_result.anomalies[1].reason.value = 900

(***************************************************************************)
(* AIAnalysisService.analyze_trends.  The slope of the least-squares line  *)
(* through n points is (n*Sxy - Sx*Sy) / (n*Sxx - Sx*Sx); the tests on     *)
(* change_percentage are stated on numerator and denominator.  Values are  *)
(* positive in every input used here.                                      *)
(***************************************************************************)
FirstEarliest(s) ==
    CHOOSE i \in 1..Len(s) :
        /\ \A j \in 1..Len(s) : s[j].timestamp >= s[i].timestamp
        /\ \A j \in 1..(i - 1) : s[j].timestamp > s[i].timestamp

\* signs.sort(key=lambda x: x.timestamp)
RECURSIVE SortByTimestamp(_)
SortByTimestamp(s) ==
    IF s = <<>> THEN <<>>
    ELSE LET i == FirstEarliest(s)
         IN  <<s[i]>> \o SortByTimestamp(RemoveAt(s, i))

RECURSIVE SumSeq(_, _)
SumSeq(f, n) == IF n = 0 THEN 0 ELSE SumSeq(f, n - 1) + f[n]

\* every x handed to np.polyfit is 0: the fit has no defined slope
TrendUndefined(signs) ==
    \A i \in 1..Len(signs) : signs[i].timestamp = signs[1].timestamp

TrendLabels == {"stable", "increasing", "decreasing"}

\* the label of one type; undefined is the label numpy's outcome gives
\* when the fit has no defined slope
TrendOfType(signs, undefined) ==
    LET sorted == SortByTimestamp(signs)
        n == Len(sorted)
        x == [i \in 1..n |-> sorted[i].timestamp - sorted[1].timestamp]
        y == [i \in 1..n |-> sorted[i].value]
        slopeNum == n * SumSeq([i \in 1..n |-> x[i] * y[i]], n)
                       - SumSeq(x, n) * SumSeq(y, n)
        slopeDen == n * SumSeq([i \in 1..n |-> x[i] * x[i]], n)
                       - SumSeq(x, n) * SumSeq(x, n)
        changeNum == slopeNum * x[n] * 100
        changeDen == slopeDen * y[1]
        abs == IF changeNum < 0 THEN 0 - changeNum ELSE changeNum
    IN  IF TrendUndefined(signs) THEN undefined
        ELSE IF abs < 5 * changeDen THEN "stable"
        ELSE IF changeNum > 0 THEN "increasing"
        ELSE "decreasing"

\* the trends list after the loop has handled the first k types
RECURSIVE TrendsAfter(_, _, _, _)
TrendsAfter(vital, types, k, undefined) ==
    IF k = 0 THEN <<>>
    ELSE LET signs == SignsOfType(vital, types[k])
             before == TrendsAfter(vital, types, k - 1, undefined)
         IN  IF Len(signs) < 2 THEN before
             ELSE Append(before,
                         [type |-> types[k],
                          trend |-> TrendOfType(signs, undefined),
                          period_days |-> 7])

AnalyzeTrends(vital, undefined) ==
    LET types == TypesInOrder(vital, Len(vital))
    IN  TrendsAfter(vital, types, Len(types), undefined)

\* np.polyfit is reached with all x equal to 0 for some type
AnyTrendUndefined(vital) ==
    \E i, j \in 1..Len(vital) :
        /\ i # j
        /\ vital[i].type = vital[j].type
        /\ TrendUndefined(SignsOfType(vital, vital[i].type))

(***************************************************************************)
(* GET /health-summary.  vital_signs holds the documents of the vital-signs*)
(* collection in the order the cursor yields them, alerts the documents of *)
(* the alerts collection; timestamps are hours.                            *)
(***************************************************************************)
Now == 100
HoursBack == 24

\* find({"timestamp": {"$gte": start_date, "$lte": end_date}})
RecentVitalSigns(docs) ==
    SelectSeq(docs, LAMBDA d : /\ d.timestamp >= Now - HoursBack
                               /\ d.timestamp <= Now)

\* count_documents({"severity": ..., "is_resolved": False})
CountUnresolved(docs, severities) ==
    Cardinality({i \in 1..Len(docs) : /\ docs[i].severity \in severities
                                      /\ docs[i].is_resolved = FALSE})

\* a variant that tests the warning condition before the critical one
OverallStatus_WarningFirst(critical_alerts, warning_alerts, recent_anomalies, risk_level) ==
    IF warning_alerts > 0 \/ risk_level = "high" THEN "warning"
    ELSE IF critical_alerts > 0 \/ risk_level = "critical" THEN "critical"
    ELSE IF recent_anomalies > 0 \/ risk_level = "medium" THEN "caution"
    ELSE "normal"

OverallStatus(critical_alerts, warning_alerts, recent_anomalies, risk_level) ==
    IF critical_alerts > 0 \/ risk_level = "critical" THEN "critical"
    ELSE IF warning_alerts > 0 \/ risk_level = "high" THEN "warning"
    ELSE IF recent_anomalies > 0 \/ risk_level = "medium" THEN "caution"
    ELSE "normal"

HealthSummary(recent, alert_docs, undefined) ==
    LET critical_alerts == CountUnresolved(alert_docs, {"critical"})
        warning_alerts == CountUnresolved(alert_docs, {"high", "medium"})
        anomalies == DetectAnomalies(recent)
        recent_anomalies ==
            Cardinality({k \in 1..Len(anomalies) : anomalies[k].is_anomaly})
        ews == EarlyWarningScore(recent)
    IN  [overall_status |-> OverallStatus(critical_alerts, warning_alerts,
                                          recent_anomalies, ews.risk_level),
         critical_alerts |-> critical_alerts,
         warning_alerts |-> warning_alerts,
         recent_anomalies |-> recent_anomalies,
         early_warning_score |-> ews,
         trend_analysis |-> AnalyzeTrends(recent, undefined)]

get_health_summary ==
    /\ pc = "serving"
    /\ response = NoResponse
    /\ LET recent == RecentVitalSigns(vital_signs)
       IN  IF db_database = None
           THEN \* get_collection() subscripts None
                response' = Http500("health_summary", "TypeError")
           ELSE IF \E i \in 1..Len(recent) : recent[i].type \notin VitalSignType
           THEN \* VitalSign(doc) rejects the document
                response' = Http500("health_summary", "ValidationError")
           ELSE \/ response' = Http500("health_summary", "PyMongoError")
                \/ /\ AnyTrendUndefined(recent)
                   /\ response' = Http500("health_summary", "LinAlgError")
                \/ \E undefined \in TrendLabels :
                     response' =
                       [op |-> "health_summary", code |-> 200,
                        body |-> HealthSummary(recent, alerts, undefined)]
    /\ UNCHANGED <<pc, db_client, db_database, collection, next_oid,
                   mock_vital_signs, connect_raised, posted>>
    /\ UNCHANGED aiVars
    /\ UNCHANGED ocrVars

MaxAlerts == 2

AlertSeverity == {"low", "medium", "high", "critical"}

AlertDocs == [severity : AlertSeverity, is_resolved : BOOLEAN]

\* five equal saturations and one that differs, one hour apart, the odd one
\* at the given hour
SaturationsWithOutlier(outlier_hour) ==
    [i \in 1..6 |->
        IF i = 6 THEN Reading("spO2", 960, outlier_hour)
        ELSE Reading("spO2", 980, Now - i)]

SummaryInputs ==
    { <<>>,
      <<Reading("heartRate", 1050, Now - 1)>>,
      <<Reading("heartRate", 1350, Now - 1)>>,
      <<Reading("heartRate", 1350, Now - 1),
        Reading("bloodPressure", 1500, Now - 1)>>,
      <<Reading("heartRate", 1350, Now - 1),
        Reading("bloodPressure", 2100, Now - 1),
        Reading("temperature", 380, Now - 1)>>,
      <<Reading("heartRate", 1350, Now - HoursBack - 6)>>,
      <<Reading("heartRate", 1350, Now + 1)>>,
      <<Reading("heartRate", 800, Now - 1), Reading("heartRate", 900, Now - 1)>>,
      <<Reading("heartRate", 800, Now - 2), Reading("heartRate", 900, Now)>>,
      <<Reading("weight", 700, Now - 1)>>,
      SaturationsWithOutlier(Now - 6),
      SaturationsWithOutlier(Now - HoursBack - 6) }

InitSummary ==
    /\ pc = "serving"
    /\ \/ db_client = None /\ db_database = None
       \/ db_client = "client" /\ db_database = "database"
    /\ collection = {}
    /\ next_oid = 0
    /\ mock_vital_signs = <<>>
    /\ response = NoResponse
    /\ connect_raised = (db_client = None)
    /\ posted = {}
    /\ vital_signs \in SummaryInputs
    /\ alerts \in SeqsUpTo(AlertDocs, MaxAlerts)
    /\ ai_result = [op |-> "none"]
    /\ SymptomsIdle
    /\ OCRIdle

NextSummary == get_health_summary \/ send_response

SpecSummary == InitSummary /\ [][NextSummary]_vars

\* the readings of the last 24 hours
InLast24Hours(docs) ==
    {i \in 1..Len(docs) : docs[i].timestamp \in (Now - HoursBack)..Now}

RECURSIVE Restrict(_, _, _)
Restrict(docs, keep, n) ==
    IF n = 0 THEN <<>>
    ELSE IF n \in keep THEN Append(Restrict(docs, keep, n - 1), docs[n])
    ELSE Restrict(docs, keep, n - 1)

\* C7: a health summary that is answered has overall_status 'critical' iff
\* there is an unresolved critical alert or the EWS risk level is
\* 'critical'; else 'warning' iff there is an unresolved high or medium
\* alert or the risk level is 'high'; else 'caution' iff an anomaly was
\* detected in the last 24 hours or the risk level is 'medium'; else
\* 'normal'; and it reports these three counts.
C7_OverallStatusPrecedence ==
    (response.op = "health_summary" /\ response.code = 200) =>
        LET body == response.body
            unresolved(S) == {i \in 1..Len(alerts) :
                                 /\ alerts[i].severity \in S
                                 /\ ~alerts[i].is_resolved}
            crit == Cardinality(unresolved({"critical"}))
            warn == Cardinality(unresolved({"high", "medium"}))
            last == Restrict(vital_signs, InLast24Hours(vital_signs),
                             Len(vital_signs))
            anom == Cardinality({i \in 1..Len(last) : ClaimedAnomaly(last, i)})
            risk == body.early_warning_score.risk_level
            isCritical == crit > 0 \/ risk = "critical"
            isWarning == ~isCritical /\ (warn > 0 \/ risk = "high")
            isCaution == /\ ~isCritical
                         /\ ~isWarning
                         /\ (anom > 0 \/ risk = "medium")
        IN  /\ body.overall_status = "critical" <=> isCritical
            /\ body.overall_status = "warning" <=> isWarning
            /\ body.overall_status = "caution" <=> isCaution
            /\ body.overall_status = "normal" <=>
                   (~isCritical /\ ~isWarning /\ ~isCaution)
            /\ body.critical_alerts = crit
            /\ body.warning_alerts = warn
            /\ body.recent_anomalies = anom

\* C7 witness: a resolved critical alert and an unresolved high alert, with
\* a critical score: the summary says 'critical', and counts one warning
C7_Witness_CriticalOverWarning ==
    /\ response.op = "health_summary"
    /\ response.code = 200
    /\ response.body.overall_status = "critical"
    /\ response.body.critical_alerts = 0
    /\ response.body.warning_alerts = 1
    /\ response.body.early_warning_score.risk_level = "critical"
    /\ \E i \in 1..Len(alerts) :
          alerts[i].severity = "critical" /\ alerts[i].is_resolved

(***************************************************************************)
(* The OCR endpoints POST /ocr/upload and POST /ocr/base64.  A request     *)
(* moves through the awaits of its handler: validate, OCR, webhook,        *)
(* respond.  EnhancedOCRService and WebhookService are called here and     *)
(* what they return is drawn from the shapes the response schema and the   *)
(* test scripts describe.  A dict is a record; has_counts says whether the *)
(* keys text_count and results are in it.                                  *)
(***************************************************************************)
MaxWebhooks == 2     \* webhook configurations a delivery goes to

OCRResult(success, has_counts, texts) ==
    [success |-> success, has_counts |-> has_counts,
     text_count |-> Len(texts), results |-> texts,
     webhook_delivery |-> NoDelivery]

\* the dicts process_file and process_base64_image return
OCRResults ==
    { OCRResult(TRUE, TRUE, <<"BP 120/80", "HR 72">>),
      OCRResult(TRUE, TRUE, <<>>),
      OCRResult(FALSE, TRUE, <<>>),
      OCRResult(FALSE, FALSE, <<>>) }

\* what a call of the OCR service does
OCROutcomes ==
    {[kind |-> "result", result |-> r] : r \in OCRResults}
        \cup {[kind |-> "raised", exc |-> e] : e \in {"ValueError", "Exception"}}

\* one entry of the list send_ocr_result returns
WebhookResults ==
    [success : BOOLEAN, webhook_response : {None, "Workflow was started"}]

\* what a call of send_ocr_result does
WebhookOutcomes ==
    {[kind |-> "returned", results |-> rs] :
        rs \in SeqsUpTo(WebhookResults, MaxWebhooks)}
        \cup {[kind |-> "raised"]}

\* "completed" if the list is not empty
DeliveryStatus_AnyResult(webhook_results) ==
    IF webhook_results # <<>> THEN "completed" ELSE "failed"

\* "completed" if all(...) of the results succeeded
DeliveryStatus_AllSucceeded(webhook_results) ==
    IF \A i \in 1..Len(webhook_results) : webhook_results[i].success
    THEN "completed" ELSE "failed"

\* "completed" if any(wr["success"] for wr in webhook_results) else "failed"
DeliveryStatus(webhook_results) ==
    IF \E i \in 1..Len(webhook_results) : webhook_results[i].success
    THEN "completed" ELSE "failed"

\* n8n_webhook_response after the loop over the results
RECURSIVE N8nWebhookResponse(_, _)
N8nWebhookResponse(webhook_results, n) ==
    IF n = 0 THEN "No webhook response received"
    ELSE IF webhook_results[n].webhook_response # None
         THEN webhook_results[n].webhook_response
         ELSE N8nWebhookResponse(webhook_results, n - 1)

\* result["webhook_delivery"] as the try block or its except branch sets it
WebhookDelivery(outcome) ==
    IF outcome.kind = "raised"
    THEN [present |-> TRUE, status |-> "failed", n8n_webhook_response |-> None,
          results |-> <<>>]
    ELSE [present |-> TRUE,
          status |-> DeliveryStatus(outcome.results),
          n8n_webhook_response |->
              N8nWebhookResponse(outcome.results, Len(outcome.results)),
          results |-> [i \in 1..Len(outcome.results) |->
                          [success |-> outcome.results[i].success]]]

\* result["webhook_delivery"] of the else branch
SkippedDelivery ==
    [present |-> TRUE, status |-> "skipped", n8n_webhook_response |-> None,
     results |-> <<>>]

NewRequest(req, first) ==
    /\ ocr_pc \in {"idle", "done"}
    /\ ocr_req' = req
    /\ ocr_pc' = first
    /\ ocr_returned' = [kind |-> "none"]
    /\ ocr_result' = NoResult
    /\ ocr_response' = [code |-> 0]
    /\ webhook_calls' = 0
    /\ webhook_outcome' = [kind |-> "none"]
    /\ UNCHANGED webhook_configs
    /\ UNCHANGED serverVars
    /\ UNCHANGED aiVars

\* POST /ocr/upload arrives; file_ok is what validate_file_type answers
ocr_upload ==
    \E ok \in BOOLEAN :
        NewRequest([endpoint |-> "upload", file_ok |-> ok], "validate")

\* POST /ocr/base64 arrives
ocr_base64 == NewRequest([endpoint |-> "base64"], "ocr")

validate_file_type ==
    /\ ocr_pc = "validate"
    /\ IF ocr_req.file_ok
       THEN ocr_pc' = "ocr" /\ UNCHANGED ocr_response
       ELSE /\ ocr_pc' = "done"
            /\ ocr_response' = [code |-> 400, raised |-> "HTTPException"]
    /\ UNCHANGED <<ocr_req, ocr_returned, ocr_result, webhook_calls,
                   webhook_outcome>>
    /\ UNCHANGED webhook_configs
    /\ UNCHANGED serverVars
    /\ UNCHANGED aiVars

\* await process_file(...) or process_base64_image(...)
process_file ==
    /\ ocr_pc = "ocr"
    /\ \E out \in OCROutcomes :
         /\ ocr_returned' = out
         /\ IF out.kind = "raised"
            THEN /\ ocr_pc' = "done"
                 /\ ocr_response' =
                      [code |-> IF out.exc = "ValueError" THEN 400 ELSE 500,
                       raised |-> out.exc]
                 /\ UNCHANGED ocr_result
            ELSE /\ ocr_pc' = "processed"
                 /\ ocr_result' = out.result
                 /\ UNCHANGED ocr_response
    /\ UNCHANGED <<ocr_req, webhook_calls, webhook_outcome>>
    /\ UNCHANGED webhook_configs
    /\ UNCHANGED serverVars
    /\ UNCHANGED aiVars

\* a handler that sends the result to the webhooks whatever OCR reported
ShouldSendWebhook_Always(result) == TRUE

\* if result.get("success"):
ShouldSendWebhook(result) == result.success

\* if result.get("success"): await send_ocr_result(...), inside try/except
send_ocr_result ==
    /\ ocr_pc = "processed"
    /\ ShouldSendWebhook(ocr_result)
    /\ \E outcome \in WebhookOutcomes :
         /\ webhook_outcome' = outcome
         /\ ocr_result' =
              [ocr_result EXCEPT !.webhook_delivery = WebhookDelivery(outcome)]
    /\ webhook_calls' = webhook_calls + 1
    /\ ocr_pc' = "respond"
    /\ UNCHANGED <<ocr_req, ocr_returned, ocr_response>>
    /\ UNCHANGED webhook_configs
    /\ UNCHANGED serverVars
    /\ UNCHANGED aiVars

\* else: the webhook is skipped
skip_webhook ==
    /\ ocr_pc = "processed"
    /\ ~ShouldSendWebhook(ocr_result)
    /\ ocr_result' = [ocr_result EXCEPT !.webhook_delivery = SkippedDelivery]
    /\ ocr_pc' = "respond"
    /\ UNCHANGED <<ocr_req, ocr_returned, ocr_response, webhook_calls,
                   webhook_outcome>>
    /\ UNCHANGED webhook_configs
    /\ UNCHANGED serverVars
    /\ UNCHANGED aiVars

\* return OCRResponse(result): text_count and results are required fields,
\* and pydantic's ValidationError is a ValueError
return_response ==
    /\ ocr_pc = "respond"
    /\ ocr_response' =
         IF ocr_result.has_counts
         THEN [code |-> 200,
               body |-> [success |-> ocr_result.success,
                         text_count |-> ocr_result.text_count,
                         results |-> ocr_result.results,
                         webhook_delivery |-> ocr_result.webhook_delivery]]
         ELSE [code |-> 400, raised |-> "ValidationError"]
    /\ ocr_pc' = "done"
    /\ UNCHANGED <<ocr_req, ocr_returned, ocr_result, webhook_calls,
                   webhook_outcome>>
    /\ UNCHANGED webhook_configs
    /\ UNCHANGED serverVars
    /\ UNCHANGED aiVars

InitOCR ==
    /\ OCRIdle
    /\ ServerOff
    /\ AIIdle

NextOCR ==
    \/ ocr_upload
    \/ ocr_base64
    \/ validate_file_type
    \/ process_file
    \/ send_ocr_result
    \/ skip_webhook
    \/ return_response

SpecOCR == InitOCR /\ [][NextOCR]_vars

(***************************************************************************)
(* Claims about the OCR endpoints.                                         *)
(***************************************************************************)
OCRSucceeded ==
    ocr_returned.kind = "result" /\ ocr_returned.result.success

DeliverySucceeded ==
    /\ webhook_outcome.kind = "returned"
    /\ \E i \in 1..Len(webhook_outcome.results) :
          webhook_outcome.results[i].success

WebhookFailed ==
    \/ webhook_outcome.kind = "raised"
    \/ /\ webhook_outcome.kind = "returned"
       /\ \A i \in 1..Len(webhook_outcome.results) :
             ~webhook_outcome.results[i].success

\* C10: once OCR of an upload has succeeded the request is never answered
\* with an error, and when every delivery failed or the webhook service
\* raised the answer is 200 with success, text_count and results as the OCR
\* service returned them and webhook_delivery.status 'failed'.
C10_WebhookFailureKeepsOCRResult ==
    (ocr_req.endpoint = "upload" /\ OCRSucceeded) =>
        /\ ocr_response.code \in {0, 200}
        /\ (ocr_pc = "done" /\ WebhookFailed) =>
              /\ ocr_response.code = 200
              /\ ocr_response.body.success = TRUE
              /\ ocr_response.body.text_count = ocr_returned.result.text_count
              /\ ocr_response.body.results = ocr_returned.result.results
              /\ ocr_response.body.webhook_delivery.status = "failed"

\* C10 witness: the webhook service raised and the upload is answered 200
\* with both texts
C10_Witness_RaisedStillAnswered ==
    /\ ocr_req.endpoint = "upload"
    /\ ocr_pc = "done"
    /\ webhook_outcome.kind = "raised"
    /\ ocr_response.code = 200
    /\ ocr_response.body.text_count = 2
    /\ ocr_response.body.webhook_delivery.status = "failed"

\* the values the description of WebhookDeliveryStatus.status lists
DocumentedStatuses == {"completed", "failed", "pending"}

\* C11: the webhook_delivery.status of every response of the OCR endpoints
\* is one of the values the response schema documents: 'completed',
\* 'failed' or 'pending'.
C11_StatusIsDocumented ==
    ocr_response.code = 200 =>
        ocr_response.body.webhook_delivery.status \in DocumentedStatuses

(***************************************************************************)
(* main.py: the routes under /vital-signs/<segment>.  A path segment is    *)
(* the text of an ObjectId (<<"oid", n>>), a mock id (<<"mock", n>>) or    *)
(* the word stats (<<"stats", 0>>).                                        *)
(***************************************************************************)
StatsSegment == <<"stats", 0>>

\* the routes of the app that start with /vital-signs, in the order the
\* decorators register them; second is what follows /vital-signs
Routes ==
    << [method |-> "POST",   second |-> "none",  endpoint |-> "create_vital_sign"],
       [method |-> "GET",    second |-> "none",  endpoint |-> "get_vital_signs"],
       [method |-> "GET",    second |-> "param", endpoint |-> "get_vital_sign"],
       [method |-> "PUT",    second |-> "param", endpoint |-> "update_vital_sign"],
       [method |-> "DELETE", second |-> "param", endpoint |-> "delete_vital_sign"],
       [method |-> "GET",    second |-> "stats", endpoint |-> "get_vital_signs_stats"] >>

\* the path regex of a route matches the segment: {vital_sign_id} matches
\* any text without a slash, a fixed word only itself
RouteMatches(route, method, segment) ==
    /\ route.method = method
    /\ CASE route.second = "none" -> segment[1] = "none"
         [] route.second = "param" -> segment[1] # "none"
         [] OTHER -> segment[1] = route.second

\* Starlette's router: the first route that matches serves the request
FirstMatch(routes, method, segment) ==
    LET i == CHOOSE i \in 1..Len(routes) :
                 /\ RouteMatches(routes[i], method, segment)
                 /\ \A j \in 1..(i - 1) : ~RouteMatches(routes[j], method, segment)
    IN  routes[i].endpoint

Dispatch(method, segment) == FirstMatch(Routes, method, segment)

\* bson.ObjectId(text) accepts the text of an ObjectId and raises InvalidId
\* on anything else
IsObjectIdText(segment) == segment[1] = "oid"

\* find_one({"_id": ObjectId(id)}): the set holding the document, or empty
FindOne(docs, segment) == {d \in docs : d.id = segment}

Http404(op, segment) ==
    [op |-> op, id |-> segment, code |-> 404, detail |-> "Vital sign not found"]

Http500For(op, segment, exc) ==
    [op |-> op, id |-> segment, code |-> 500, raised |-> exc]

\* the responses get_vital_sign can give
GetVitalSign(segment) ==
    IF db_database = None
    THEN {Http500For("get_vital_sign", segment, "TypeError")}
    ELSE IF ~IsObjectIdText(segment)
    THEN {Http500For("get_vital_sign", segment, "InvalidId")}
    ELSE {Http500For("get_vital_sign", segment, "PyMongoError")} \cup
         { IF ~(d.has_fields /\ d.parses)
           THEN Http500For("get_vital_sign", segment, "ValidationError")
           ELSE [op |-> "get_vital_sign", id |-> segment, code |-> 200,
                 body |-> VitalSign(d)] : d \in FindOne(collection, segment) }
         \cup (IF FindOne(collection, segment) = {}
               THEN {Http404("get_vital_sign", segment)} ELSE {})

\* the `days` a client passes to the statistics route, with the start_date
\* the handler derives from it; end_date is Naive(10000)
StatsParams == {[days |-> 30, start_date |-> Naive(0)],
                [days |-> 1, start_date |-> Naive(8000)]}

\* {"$match": {"timestamp": {"$gte": start_date, "$lte": end_date}}}
StatsMatched(docs, q) ==
    {d \in docs : /\ d.has_fields
                  /\ d.timestamp.us >= q.start_date.us
                  /\ d.timestamp.us <= 10000}

\* round(doc["average"], 2) in hundredths, the values being tenths; which
\* way a tie goes depends on the binary value of the average
RoundedAverages(group) ==
    LET total == 10 * SumOver([d \in group |-> d.value], group)
        n == Cardinality(group)
        q == total \div n
        r == total % n
    IN  IF 2 * r < n THEN {q}
        ELSE IF 2 * r > n THEN {q + 1}
        ELSE {q, q + 1}

\* the lists of VitalSignStats the pipeline can give: one entry per "$type";
\* "$last" takes the document the collection scan meets last, and the order
\* of the groups is not fixed, so a body is a set of entries
StatsBodies(docs) ==
    LET types == {d.type : d \in docs}
        group(t) == {d \in docs : d.type = t}
        lasts == {f \in [types -> docs] : \A t \in types : f[t].type = t}
        avgs == {g \in [types -> UNION {RoundedAverages(group(t)) : t \in types}] :
                    \A t \in types : g[t] \in RoundedAverages(group(t))}
    IN  { { [type |-> t,
             count |-> Cardinality(group(t)),
             average |-> avg[t],
             min_value |-> CHOOSE v \in {d.value : d \in group(t)} :
                              \A d \in group(t) : v <= d.value,
             max_value |-> CHOOSE v \in {d.value : d \in group(t)} :
                              \A d \in group(t) : v >= d.value,
             latest_value |-> last[t].value,
             latest_timestamp |-> last[t].timestamp] : t \in types } :
          last \in lasts, avg \in avgs }

\* the responses get_vital_signs_stats can give
GetVitalSignsStats(q) ==
    LET matched == StatsMatched(collection, q)
    IN  IF db_database = None
        THEN {Http500For("get_vital_signs_stats", StatsSegment, "TypeError")}
        ELSE IF \E d \in matched : d.type \notin VitalSignType
        THEN {Http500For("get_vital_signs_stats", StatsSegment, "ValueError")}
        ELSE {Http500For("get_vital_signs_stats", StatsSegment, "PyMongoError")}
             \cup {[op |-> "get_vital_signs_stats", id |-> StatsSegment,
                    code |-> 200, params |-> q, body |-> b] :
                   b \in StatsBodies(matched)}

\* the ids a client asks for
IdParams == {ObjectId(0), ObjectId(3), ObjectId(4), MockId(4)}

\* GET /vital-signs/<segment> as the router serves it
route_get ==
    /\ pc = "serving"
    /\ response = NoResponse
    /\ \E segment \in IdParams \cup {ObjectId(2), StatsSegment},
          q \in StatsParams :
         LET endpoint == Dispatch("GET", segment)
         IN  response' \in
                 IF endpoint = "get_vital_sign" THEN GetVitalSign(segment)
                 ELSE GetVitalSignsStats(q)
    /\ UNCHANGED <<pc, db_client, db_database, collection, next_oid,
                   mock_vital_signs, connect_raised, posted>>
    /\ UNCHANGED <<aiVars, ocrVars>>

(***************************************************************************)
(* main.py: PUT and DELETE /vital-signs/{vital_sign_id}                    *)
(***************************************************************************)
\* VitalSignUpdate bodies: every field null, or a new value (null says
\* whether the value is None)
VitalSignUpdate == {[null |-> TRUE, value |-> 0], [null |-> FALSE, value |-> 990]}

\* {k: v for k, v in vital_sign_update.dict().items() if v is not None}
UpdateData(body) == IF body.null THEN {} ELSE {"value"}

\* update_one({"_id": ...}, {"$set": update_data}) on the collection
UpdateOne(docs, segment, body) ==
    {IF d.id = segment THEN [d EXCEPT !.value = body.value] ELSE d : d \in docs}

\* the last lines of update_vital_sign: find_one again, doc["_id"] = ...,
\* VitalSign(doc)
UpdatedResponses(docs, segment) ==
    IF ~IsObjectIdText(segment)
    THEN {Http500For("update_vital_sign", segment, "InvalidId")}
    ELSE IF FindOne(docs, segment) = {}
    THEN \* doc is None and cannot be subscripted
         {Http500For("update_vital_sign", segment, "TypeError")}
    ELSE { IF ~(d.has_fields /\ d.parses)
           THEN Http500For("update_vital_sign", segment, "ValidationError")
           ELSE [op |-> "update_vital_sign", id |-> segment, code |-> 200,
                 body |-> VitalSign(d)] : d \in FindOne(docs, segment) }

update_vital_sign ==
    /\ pc = "serving"
    /\ response = NoResponse
    /\ \E segment \in IdParams, body \in VitalSignUpdate :
         IF db_database = None
         THEN /\ response' = Http500For("update_vital_sign", segment, "TypeError")
              /\ UNCHANGED collection
         ELSE IF UpdateData(body) = {}
         THEN /\ response' \in UpdatedResponses(collection, segment)
              /\ UNCHANGED collection
         ELSE IF ~IsObjectIdText(segment)
         THEN /\ response' = Http500For("update_vital_sign", segment, "InvalidId")
              /\ UNCHANGED collection
         ELSE \/ /\ response' =
                      Http500For("update_vital_sign", segment, "PyMongoError")
                 /\ UNCHANGED collection
              \/ /\ FindOne(collection, segment) = {}
                 /\ response' = Http404("update_vital_sign", segment)
                 /\ UNCHANGED collection
              \/ /\ FindOne(collection, segment) # {}
                 /\ collection' = UpdateOne(collection, segment, body)
                 /\ response' \in
                      UpdatedResponses(UpdateOne(collection, segment, body),
                                       segment)
    /\ UNCHANGED <<pc, db_client, db_database, next_oid, mock_vital_signs,
                   connect_raised, posted>>
    /\ UNCHANGED <<aiVars, ocrVars>>

\* a delete_one that also removes the documents inserted before the matched
\* one
DeleteOne_RemovesOlder(docs, segment) == {d \in docs : d.id[2] > segment[2]}

\* delete_one({"_id": ObjectId(vital_sign_id)}) on the collection
DeleteOne(docs, segment) == docs \ FindOne(docs, segment)

delete_vital_sign ==
    /\ pc = "serving"
    /\ response = NoResponse
    /\ \E segment \in IdParams :
         IF db_database = None
         THEN /\ response' = Http500For("delete_vital_sign", segment, "TypeError")
              /\ UNCHANGED collection
         ELSE IF ~IsObjectIdText(segment)
         THEN /\ response' = Http500For("delete_vital_sign", segment, "InvalidId")
              /\ UNCHANGED collection
         ELSE \/ /\ response' =
                      Http500For("delete_vital_sign", segment, "PyMongoError")
                 /\ UNCHANGED collection
              \/ /\ FindOne(collection, segment) = {}
                 /\ response' = Http404("delete_vital_sign", segment)
                 /\ UNCHANGED collection
              \/ /\ FindOne(collection, segment) # {}
                 /\ collection' = DeleteOne(collection, segment)
                 /\ response' = [op |-> "delete_vital_sign", id |-> segment,
                                 code |-> 200,
                                 message |-> "Vital sign deleted successfully"]
    /\ UNCHANGED <<pc, db_client, db_database, next_oid, mock_vital_signs,
                   connect_raised, posted>>
    /\ UNCHANGED <<aiVars, ocrVars>>

\* the server with the routes under /vital-signs/<segment>
NextCrud ==
    \/ CreateClient
    \/ Ping
    \/ create_indexes
    \/ setup_sample_data
    \/ create_vital_sign
    \/ get_vital_signs
    \/ route_get
    \/ update_vital_sign
    \/ delete_vital_sign
    \/ send_response

SpecCrud == Init /\ [][NextCrud]_vars

(***************************************************************************)
(* Claims about the routes under /vital-signs/<segment>.                   *)
(***************************************************************************)
\* the response answers a request for /vital-signs/<segment>
ForSegment(segment) ==
    /\ response.op \in {"get_vital_sign", "get_vital_signs_stats",
                        "update_vital_sign", "delete_vital_sign"}
    /\ response.id = segment

\* C12: GET /vital-signs/stats is served by the statistics handler, which
\* answers with count, average, minimum, maximum and latest value per type
\* of the last `days` days; it is never answered as the lookup of a vital
\* sign whose id is 'stats'.
C12_StatsServedByStatisticsHandler ==
    ForSegment(StatsSegment) =>
        /\ response.op = "get_vital_signs_stats"
        /\ response.code = 200 =>
              response.body \in
                  StatsBodies(StatsMatched(collection, response.params))

(***************************************************************************)
(* endpoints.py: the webhook configuration routes.  WebhookConfigService   *)
(* keeps the configurations; a configuration is [id, enabled], its id the  *)
(* text the service chose for it (<<"cfg", n>>).  The response of a        *)
(* request is ocr_response.                                                *)
(***************************************************************************)
MaxConfigs == 3      \* configurations the store holds at most

ConfigId(n) == <<"cfg", n>>
SummarySegment == <<"summary", 0>>

\* the GET routes under /webhook/configs, in the order the decorators
\* register them
WebhookRoutes ==
    << [method |-> "GET", second |-> "none", endpoint |-> "get_all_webhook_configs"],
       [method |-> "GET", second |-> "param", endpoint |-> "get_webhook_config"],
       [method |-> "GET", second |-> "summary",
        endpoint |-> "get_webhook_config_summary"] >>

\* config_service.get_config(config_id): the set holding the configuration,
\* or empty for None
GetConfig(configs, segment) == {c \in configs : c.id = segment}

\* config_service.get_config_summary()
GetConfigSummary(configs) ==
    [total_configs |-> Cardinality(configs),
     enabled_configs |-> Cardinality({c \in configs : c.enabled})]

\* the responses get_webhook_config can give
GetWebhookConfig(segment) ==
    {[op |-> "get_webhook_config", id |-> segment, code |-> 500]}
    \cup {[op |-> "get_webhook_config", id |-> segment, code |-> 200,
           body |-> c] : c \in GetConfig(webhook_configs, segment)}
    \cup (IF GetConfig(webhook_configs, segment) = {}
          THEN {[op |-> "get_webhook_config", id |-> segment, code |-> 404]}
          ELSE {})

\* the responses get_webhook_config_summary can give
GetWebhookConfigSummary ==
    {[op |-> "get_webhook_config_summary", id |-> SummarySegment, code |-> 500],
     [op |-> "get_webhook_config_summary", id |-> SummarySegment, code |-> 200,
      body |-> GetConfigSummary(webhook_configs)]}

ConfigRequest ==
    /\ ocr_pc = "idle"
    /\ ocr_response = [code |-> 0]
    /\ UNCHANGED <<ocr_pc, ocr_req, ocr_returned, ocr_result, webhook_calls,
                   webhook_outcome>>
    /\ UNCHANGED serverVars
    /\ UNCHANGED aiVars

\* POST /webhook/configs
create_webhook_config ==
    /\ ConfigRequest
    /\ Cardinality(webhook_configs) < MaxConfigs
    /\ \E n \in 1..MaxConfigs, enabled \in BOOLEAN :
         /\ GetConfig(webhook_configs, ConfigId(n)) = {}
         /\ LET config == [id |-> ConfigId(n), enabled |-> enabled]
            IN  /\ webhook_configs' = webhook_configs \cup {config}
                /\ ocr_response' = [op |-> "create_webhook_config",
                                    id |-> config.id, code |-> 200,
                                    body |-> config]

\* DELETE /webhook/configs/{config_id}
delete_webhook_config ==
    /\ ConfigRequest
    /\ \E n \in 1..MaxConfigs :
         LET found == GetConfig(webhook_configs, ConfigId(n))
         IN  /\ webhook_configs' = webhook_configs \ found
             /\ ocr_response' = [op |-> "delete_webhook_config",
                                 id |-> ConfigId(n),
                                 code |-> IF found = {} THEN 404 ELSE 200]

\* GET /webhook/configs/<segment> as the router serves it
route_config_get ==
    /\ ConfigRequest
    /\ \E segment \in {ConfigId(n) : n \in 1..MaxConfigs} \cup {SummarySegment} :
         ocr_response' \in
             IF FirstMatch(WebhookRoutes, "GET", segment) = "get_webhook_config"
             THEN GetWebhookConfig(segment)
             ELSE GetWebhookConfigSummary
    /\ UNCHANGED webhook_configs

\* the response is written to the client
config_response_sent ==
    /\ ocr_pc = "idle"
    /\ ocr_response # [code |-> 0]
    /\ ocr_response' = [code |-> 0]
    /\ UNCHANGED <<ocr_pc, ocr_req, ocr_returned, ocr_result, webhook_calls,
                   webhook_outcome, webhook_configs>>
    /\ UNCHANGED serverVars
    /\ UNCHANGED aiVars

InitConfigs ==
    /\ OCRIdle
    /\ ServerOff
    /\ AIIdle

NextConfigs ==
    \/ create_webhook_config
    \/ delete_webhook_config
    \/ route_config_get
    \/ config_response_sent

SpecConfigs == InitConfigs /\ [][NextConfigs]_vars

\* C13: GET /webhook/configs/summary is served by the summary handler and
\* answers with the result of get_config_summary; it is never answered as
\* the lookup of a configuration whose id is 'summary'.
C13_SummaryServedBySummaryHandler ==
    (/\ ocr_response.code # 0
     /\ ocr_response.id = SummarySegment) =>
        /\ ocr_response.op = "get_webhook_config_summary"
        /\ ocr_response.code = 200 =>
              ocr_response.body = GetConfigSummary(webhook_configs)

\* ======================================================================
\* symptoms_service.py: SymptomsService.analyze_symptoms
\* ======================================================================

\* What a Python call hands back: a dict (its keys and where its text came
\* from), None, or a raised exception.
Dict(text) == [kind |-> "dict", keys |-> {"text", "disclaimers"}, text |-> text]

ReturnedNone == [kind |-> "None"]

Raised == [kind |-> "raise"]

\* _initialize_services: one try block around the three constructors, so a
\* constructor that raises leaves the later fields at None.
InitializedServices ==
    { [initialized |-> TRUE, embedding_model |-> None,
       qdrant_client |-> None, openai_client |-> None] }
    \cup { [initialized |-> TRUE, embedding_model |-> "SentenceTransformer",
            qdrant_client |-> None, openai_client |-> None] }
    \cup { [initialized |-> TRUE, embedding_model |-> "SentenceTransformer",
            qdrant_client |-> q, openai_client |-> o] :
              q \in {None, "QdrantClient"}, o \in {None, "OpenAI"} }

initialize_services ==
    /\ ~symptoms_service.initialized
    /\ symptoms_service' \in InitializedServices
    /\ UNCHANGED <<serverVars, ocrVars, vital_signs, alerts, ai_result,
                   symptoms_call>>

\* How the three clients behave during one call: a client that is None is
\* absent, one that is present works or raises.  A search that works finds
\* hits or none, or finds a hit whose payload is None; a completion that works
\* has a choice, or has an empty list of choices.
Behaviours(client, working) == IF client = None THEN {"absent"} ELSE working \cup {"raise"}

Envs(service) ==
    [encode : Behaviours(service.embedding_model, {"ok"}),
     search : Behaviours(service.qdrant_client, {"hits", "empty", "no_payload"}),
     chat : Behaviours(service.openai_client, {"ok", "no_choices"}),
     fallback_chat : Behaviours(service.openai_client, {"ok", "no_choices"})]

Queries == {"", "headache and nausea"}

Weeks == {0, 13, 14, 26, 27, 42, 43}

\* get_embeddings: the model's vector, random numbers when there is no model
\* or when encode raises
GetEmbeddings(env) == IF env.encode = "ok" THEN "encoded" ELSE "random"

\* _get_trimester
GetTrimester(weeks_pregnant) ==
    IF weeks_pregnant <= 0 THEN "all"
    ELSE IF weeks_pregnant <= 13 THEN "first"
    ELSE IF weeks_pregnant <= 26 THEN "second"
    ELSE IF weeks_pregnant <= 42 THEN "third"
    ELSE "all"

\* retrieve_knowledge: a list of suggestions, empty without a client and on
\* every exception
RetrieveKnowledge(env, query, weeks_pregnant) ==
    IF env.search = "absent" THEN <<>>
    ELSE LET query_embedding == GetEmbeddings(env)
             trimester == GetTrimester(weeks_pregnant)
         IN  IF env.search = "hits"
             THEN << [text |-> "evidence", query_vector |-> query_embedding,
                      query_filter |-> trimester] >>
             ELSE <<>>

\* generate_llm_response: None without a client, without suggestions and on
\* every exception
GenerateLlmResponse(env, suggestions) ==
    IF env.chat = "absent" \/ suggestions = <<>> THEN ReturnedNone
    ELSE IF env.chat = "ok" THEN Dict("llm") ELSE ReturnedNone

\* generate_fallback_response whose except clause lets the exception out
GenerateFallbackResponse_Reraises(env) ==
    IF env.fallback_chat = "absent" THEN Dict("static")
    ELSE IF env.fallback_chat = "ok" THEN Dict("fallback_llm") ELSE Raised

\* generate_fallback_response: the completion, the static text without a
\* client, the literal advice on every exception
GenerateFallbackResponse(env) ==
    IF env.fallback_chat = "absent" THEN Dict("static")
    ELSE IF env.fallback_chat = "ok" THEN Dict("fallback_llm")
    ELSE Dict("consult")

\* analyze_symptoms: the try block, and the except clause that answers with
\* the fallback when a step of the try block raised
AnalyzeSymptoms(env, query, weeks_pregnant) ==
    LET suggestions == RetrieveKnowledge(env, query, weeks_pregnant)
        llm_response == GenerateLlmResponse(env, suggestions)
        fallback == GenerateFallbackResponse(env)
    IN  IF suggestions # <<>> /\ llm_response.kind = "raise" THEN fallback
        ELSE IF suggestions # <<>> /\ llm_response.kind = "dict" THEN llm_response
        ELSE fallback

analyze_symptoms ==
    /\ symptoms_service.initialized
    /\ \E query \in Queries, weeks_pregnant \in Weeks, env \in Envs(symptoms_service) :
          symptoms_call' = [op |-> "analyze_symptoms", query |-> query,
                            weeks_pregnant |-> weeks_pregnant, env |-> env,
                            result |-> AnalyzeSymptoms(env, query, weeks_pregnant)]
    /\ UNCHANGED <<serverVars, ocrVars, vital_signs, alerts, ai_result,
                   symptoms_service>>

InitSymptoms == ServerOff /\ OCRIdle /\ AIIdle

NextSymptoms == initialize_services \/ analyze_symptoms

SpecSymptoms == InitSymptoms /\ [][NextSymptoms]_vars

\* C14: analyze_symptoms is total.  Whatever the query and the week, and
\* whether the Qdrant client, the OpenAI client and the embedding model are
\* absent, working or raising, the call returns (it does not raise) a dict
\* with a 'text' and a 'disclaimers' entry.
C14_AnalyzeSymptomsIsTotal ==
    symptoms_call.op = "analyze_symptoms" =>
        /\ symptoms_call.result.kind = "dict"
        /\ {"text", "disclaimers"} \subseteq symptoms_call.result.keys

\* The embedding model, the Qdrant client and the OpenAI client are all
\* present and each of them raises when called; the call still answers, with
\* the literal advice of generate_fallback_response's except clause.
C14_Witness_AllRaisingStillAnswers ==
    /\ symptoms_call.op = "analyze_symptoms"
    /\ symptoms_call.env.encode = "raise"
    /\ symptoms_call.env.search = "raise"
    /\ symptoms_call.env.fallback_chat = "raise"
    /\ symptoms_call.result = Dict("consult")

\* the records stored under an id: the documents of the collection in
\* MongoDB mode, the records of the mock list in mock mode
StoredUnder(segment) ==
    IF db_database # None
    THEN {VitalSign(d) : d \in {e \in FindOne(collection, segment) :
                                   e.has_fields /\ e.parses}}
    ELSE {VitalSign(mock_vital_signs[i]) :
             i \in {j \in 1..Len(mock_vital_signs) :
                       mock_vital_signs[j].id = segment}}

\* no document at all is stored under the id
NothingUnder(segment) ==
    IF db_database # None THEN FindOne(collection, segment) = {}
    ELSE \A i \in 1..Len(mock_vital_signs) : mock_vital_signs[i].id # segment

\* C15: GET /vital-signs/{id} returns the stored record when a vital sign
\* with that id exists and answers 404 'Vital sign not found' when none
\* exists, for every id string, in mock mode as well as in MongoDB mode; in
\* particular the id that POST /vital-signs returned fetches the record.
C15_GetByIdFindsOrAnswers404 ==
    (response.op = "get_vital_sign" /\ ~DriverFailed) =>
        /\ StoredUnder(response.id) # {} =>
              (response.code = 200 /\ response.body \in StoredUnder(response.id))
        /\ NothingUnder(response.id) =>
              (response.code = 404 /\ response.detail = "Vital sign not found")

\* C16: PUT /vital-signs/{id} for an id that matches no stored document
\* answers 404 and changes no document, whatever the body, including a body
\* whose fields are all null.  (PUT /alerts/{id} has the same statements.)
\* Stated here for MongoDB mode and for ids that are ObjectId text, where
\* neither get_collection nor ObjectId raises.
C16_UpdateOfMissingIdIs404 ==
    (/\ response.op = "update_vital_sign"
     /\ ~DriverFailed
     /\ db_database # None
     /\ IsObjectIdText(response.id)
     /\ NothingUnder(response.id)) => response.code = 404

\* the handler `op` answers in this step
Answers(op) == response = NoResponse /\ response'.op = op

\* ObjectIds the driver has handed out so far, or that a document inserted
\* before this run carries
Issued == {ObjectId(n) : n \in 0..(next_oid - 1)}

\* ids of the documents in the collection
IdsOf(docs) == {d.id : d \in docs}

\* C17: in MongoDB mode DELETE /vital-signs/{id} of an existing record
\* answers success and removes exactly that record, every other record
\* staying as it was.  From then on the record is gone: no later step brings
\* a removed id back, a GET /vital-signs result holds only records that are in
\* the collection, GET by an id that is not in the collection answers 404,
\* and so does a repeated DELETE.  (Answers to a failure of the driver
\* itself are set aside.)
C17_DeleteRemovesExactlyThatRecord ==
    [][ db_database # None =>
        /\ (Answers("delete_vital_sign") /\ ~DriverFailed'
              /\ IsObjectIdText(response'.id)) =>
             IF FindOne(collection, response'.id) # {}
             THEN /\ response'.code = 200
                  /\ response'.message = "Vital sign deleted successfully"
                  /\ collection' = collection \ FindOne(collection, response'.id)
                  /\ Cardinality(collection') = Cardinality(collection) - 1
             ELSE /\ response'.code = 404
                  /\ collection' = collection
        /\ pc = "serving" =>
             \A id \in Issued \ IdsOf(collection) : id \notin IdsOf(collection')
        /\ (Answers("get_vital_sign") /\ ~DriverFailed'
              /\ response'.id \in Issued \ IdsOf(collection)) =>
             (response'.code = 404 /\ response'.detail = "Vital sign not found")
        /\ (Answers("list") /\ response'.code = 200) =>
             \A i \in 1..Len(response'.body) :
                 response'.body[i].id \in IdsOf(collection)
      ]_vars

\* A record created by POST /vital-signs was deleted, and the DELETE was
\* repeated: the second answer is 404 and other records are still stored.
C17_Witness_RepeatedDeleteIs404 ==
    /\ db_database # None
    /\ response.op = "delete_vital_sign"
    /\ response.code = 404
    /\ \E p \in posted : p.id = response.id
    /\ collection # {}

\* validate_file_type turned the upload down
ValidationRejected == ocr_req.endpoint = "upload" /\ ~ocr_req.file_ok

\* C18: within one OCR request the steps run in the order validate, OCR,
\* webhook, respond.  The webhook service is invoked at most once, and only
\* after OCR returned a result with success true; it is never invoked when
\* validation rejected the file (400) or when OCR raised or reported failure.
\* OCR runs only on a request that passed validation, and the response is
\* the last step.
C18_WebhookOnceAfterSuccessfulOCR ==
    /\ webhook_calls <= 1
    /\ webhook_calls = 1 => (OCRSucceeded /\ ocr_pc \in {"respond", "done"})
    /\ webhook_outcome.kind # "none" <=> webhook_calls = 1
    /\ ValidationRejected =>
          (webhook_calls = 0 /\ ocr_returned.kind = "none"
             /\ ocr_response.code \in {0, 400})
    /\ (ocr_returned.kind # "none" /\ ~OCRSucceeded) => webhook_calls = 0
    /\ ocr_pc = "processed" => (ocr_returned.kind = "result" /\ webhook_calls = 0)
    /\ ocr_response.code # 0 => ocr_pc = "done"
    /\ (ocr_response.code = 200 /\ OCRSucceeded) => webhook_calls = 1

\* An upload passed validation, OCR succeeded, the webhook service was called
\* once and the request was then answered 200.
C18_Witness_UploadDeliveredOnce ==
    /\ ocr_req.endpoint = "upload"
    /\ ocr_req.file_ok
    /\ OCRSucceeded
    /\ webhook_calls = 1
    /\ ocr_response.code = 200
    /\ ocr_pc = "done"

=============================================================================
